---------------------------- MODULE Spec2Model ----------------------------
(***************************************************************************)
(* DependoZoho: a FastAPI gateway in front of the Zoho Desk dependency     *)
(* mapping API (app/main.py, app/upload.py, app/config.py).                *)
(*                                                                         *)
(* The module-level globals of app/main.py are the shared state.  FastAPI  *)
(* runs every `def` endpoint on a thread pool, so handlers interleave; a   *)
(* handler is cut into steps at its remote calls and at each assignment to *)
(* a global that follows one.  The Zoho token endpoint and the Zoho Desk   *)
(* API are the environment: they answer any pending request with any       *)
(* status and any of the enumerated bodies.                                *)
(***************************************************************************)
EXTENDS Integers, Sequences, FiniteSets, TLC

VARIABLES
    ZOHO_ORG_ID,          \* main.py:15
    OAUTH_CLIENT_ID,      \* main.py:16
    OAUTH_CLIENT_SECRET,  \* main.py:17
    REDIRECT_URI,         \* main.py:18
    REFRESH_TOKEN,        \* main.py:19
    TOKENS,               \* main.py:20, a dict: keys access_token, expires_at
    now,                  \* time.time()
    pc,                   \* per thread: position inside its handler
    op,                   \* per thread: the handler it runs
    r,                    \* per thread: the token endpoint's response (local r)
    headers,              \* per thread: the dict get_headers() built
    response,             \* per thread: the Desk API's response (local response)
    calls,                \* per thread: outbound requests made by this handler call
    result,               \* per thread: what the handler returned or raised
    dependency_map,       \* per thread: upload's local dict (insertion ordered)
    rows,                 \* per thread: the data-frame rows iterated so far
    hist                  \* history: facts about past steps the claims speak of

vars == <<ZOHO_ORG_ID, OAUTH_CLIENT_ID, OAUTH_CLIENT_SECRET, REDIRECT_URI,
          REFRESH_TOKEN, TOKENS, now, pc, op, r, headers, response, calls, result,
          dependency_map, rows, hist>>

globals == <<ZOHO_ORG_ID, OAUTH_CLIENT_ID, OAUTH_CLIENT_SECRET, REDIRECT_URI,
             REFRESH_TOKEN, TOKENS>>

-----------------------------------------------------------------------------
(* Bounds and enumerated inputs *)

MaxTime == 2
MaxRows == 3

\* the 60 second safety margin of main.py:41 and main.py:167
Margin == 60

Threads == {1, 2}

None == "None"

\* hist.pending: 0 when access_token and expires_at were stored from one
\* answer (or neither is stored), t while thread t has stored the token of
\* its answer and not yet the expiry, Torn when they come from two answers.
\* hist.orgChanged: set_credentials has replaced the organization id since
\* access_token was last stored.
\* hist.rejected: the token endpoint has refused a refresh and no code
\* exchange has stored a token since.
Torn == 0 - 1

OrgIds == {"org1", "org2"}
ClientIds == {"cid"}
ClientSecrets == {"secret"}
RedirectUris == {"uri"}
RefreshTokens == {"rt1"}
AccessTokens == {1, 2}
Lifetimes == {Margin}
ErrorTexts == {"invalid_code"}

\* remote status codes the environment answers with
Statuses == {200, 201, 204, 404}

EmptyDict == [k \in {} |-> 0]

\* Python: d[k] = v
DictSet(d, k, v) == [x \in DOMAIN d \cup {k} |-> IF x = k THEN v ELSE d[x]]

\* Python: d.get(k, default)
DictGet(d, k, default) == IF k \in DOMAIN d THEN d[k] ELSE default

\* main.py:26, the condition of the if
\* a variant that never looks at the expiry
NeedsRefresh_mut(tokens, t_now) == "access_token" \notin DOMAIN tokens

NeedsRefresh(tokens, t_now) ==
    \/ "access_token" \notin DOMAIN tokens
    \/ t_now > DictGet(tokens, "expires_at", 0)

\* main.py:41 and main.py:167
ExpiresAt(t_now, expires_in) == t_now + expires_in - Margin

NoCalls == [token |-> 0, data |-> 0]
NoResult == [kind |-> "none"]
NoResp == [status |-> 0]
NoHeaders == [orgId |-> None, Authorization |-> 0]

GatewayOps == {"list_mappings", "available_fields", "update_mapping",
               "delete_mapping", "upload_dependency"}

-----------------------------------------------------------------------------
(* What a handler hands back to FastAPI *)

HTTPException(status_code, detail) ==
    [kind |-> "HTTPException", status_code |-> status_code, detail |-> detail]

Return(body) == [kind |-> "return", body |-> body]

\* an exception no handler catches; FastAPI answers 500
Unhandled(exc) == [kind |-> exc]

\* config.py:4
DEFAULT_ZOHO_DOMAIN == "com"

\* config.py:22-26: the dictionary no handler of the application reads or
\* writes; it keeps the value of its definition
CREDENTIALS ==
    [orgId |-> None, accessToken |-> None, domain |-> DEFAULT_ZOHO_DOMAIN]

NotConfigured ==
    HTTPException(400, <<"No refresh token available, generate tokens first">>)

-----------------------------------------------------------------------------
Init ==
    /\ ZOHO_ORG_ID = None
    /\ OAUTH_CLIENT_ID = None
    /\ OAUTH_CLIENT_SECRET = None
    /\ REDIRECT_URI = None
    /\ REFRESH_TOKEN = None
    /\ TOKENS = EmptyDict
    /\ now = 1
    /\ pc = [t \in Threads |-> "idle"]
    /\ op = [t \in Threads |-> None]
    /\ r = [t \in Threads |-> NoResp]
    /\ headers = [t \in Threads |-> NoHeaders]
    /\ response = [t \in Threads |-> NoResp]
    /\ calls = [t \in Threads |-> NoCalls]
    /\ result = [t \in Threads |-> NoResult]
    /\ dependency_map = [t \in Threads |-> << >>]
    /\ rows = [t \in Threads |-> << >>]
    /\ hist = [pending |-> 0, orgChanged |-> FALSE, rejected |-> FALSE]

\* a handler's last step: it hands `res` back
Finish(t, res) ==
    /\ pc' = [pc EXCEPT ![t] = "done"]
    /\ result' = [result EXCEPT ![t] = res]

\* the requests a thread is given: the first any, the second those that write
\* the globals or read them through get_headers
Serves(t) ==
    IF t = 1
    THEN GatewayOps \cup {"set_credentials", "oauth_callback",
                          "upload_dependency_mapping"}
    ELSE {"set_credentials", "oauth_callback", "list_mappings"}

\* the thread takes the next request off the pool
Begin(t, handler) ==
    /\ pc[t] = "idle"
    /\ handler \in Serves(t)
    /\ op' = [op EXCEPT ![t] = handler]

\* time.time() moves on
Tick ==
    /\ now < MaxTime
    /\ now' = now + 1
    /\ UNCHANGED <<globals, pc, op, r, headers, response, calls,
                   result, dependency_map, rows, hist>>

\* the response has gone out; the thread is free again and its locals are dead
Respond(t) ==
    /\ pc[t] = "done"
    /\ pc' = [pc EXCEPT ![t] = "idle"]
    /\ op' = [op EXCEPT ![t] = None]
    /\ r' = [r EXCEPT ![t] = NoResp]
    /\ headers' = [headers EXCEPT ![t] = NoHeaders]
    /\ response' = [response EXCEPT ![t] = NoResp]
    /\ calls' = [calls EXCEPT ![t] = NoCalls]
    /\ result' = [result EXCEPT ![t] = NoResult]
    /\ dependency_map' = [dependency_map EXCEPT ![t] = << >>]
    /\ rows' = [rows EXCEPT ![t] = << >>]
    /\ UNCHANGED <<globals, now, hist>>

-----------------------------------------------------------------------------
(* POST /set_credentials *)

set_credentials(t, org_id, client_id, client_secret, redirect_uri) ==
    /\ Begin(t, "set_credentials")
    /\ ZOHO_ORG_ID' = org_id
    /\ OAUTH_CLIENT_ID' = client_id
    /\ OAUTH_CLIENT_SECRET' = client_secret
    /\ REDIRECT_URI' = redirect_uri
    /\ Finish(t, Return(<<"Credentials Saved!">>))
    /\ hist' = [hist EXCEPT !.orgChanged =
                   @ \/ (/\ "access_token" \in DOMAIN TOKENS
                         /\ ZOHO_ORG_ID # None
                         /\ org_id # ZOHO_ORG_ID)]
    /\ UNCHANGED <<REFRESH_TOKEN, TOKENS, now, r, headers, response,
                   calls, dependency_map, rows>>

-----------------------------------------------------------------------------
(* The Zoho token endpoint, https://accounts.zoho.com/oauth/v2/token *)

\* the JSON bodies a 200 answer may carry when it grants a token
TokenBodies ==
    {[access_token |-> tok, expires_in |-> life, refresh_token |-> rt] :
        tok \in AccessTokens, life \in Lifetimes, rt \in RefreshTokens}
    \cup {[access_token |-> tok, expires_in |-> life] :
            tok \in AccessTokens, life \in Lifetimes}
    \cup {[access_token |-> tok] : tok \in AccessTokens}

\* what the endpoint may answer to a request that is in flight
token_endpoint ==
    {[status |-> 400, text |-> text, data |-> EmptyDict] : text \in ErrorTexts}
    \cup
    \* Zoho reports some failures in the body of a 200 answer
    {[status |-> 200, text |-> text, data |-> EmptyDict] : text \in ErrorTexts}
    \cup
    {[status |-> 200, text |-> "json", data |-> data] : data \in TokenBodies}

-----------------------------------------------------------------------------
(* GET /oauth_callback *)

\* main.py:147-150: an error parameter, or no code
oauth_callback_refused(t) ==
    /\ Begin(t, "oauth_callback")
    /\ \E body \in {<<"error", "access_denied">>,
                    <<"error", "Authorization code not received">>} :
            Finish(t, Return(body))
    /\ UNCHANGED <<globals, now, r, headers, response, calls,
                   dependency_map, rows, hist>>

\* main.py:152-161: the code exchange is posted
oauth_callback_post(t) ==
    /\ Begin(t, "oauth_callback")
    /\ pc' = [pc EXCEPT ![t] = "oauth_wait"]
    /\ calls' = [calls EXCEPT ![t].token = @ + 1]
    /\ UNCHANGED <<globals, now, r, headers, response, result,
                   dependency_map, rows, hist>>

\* a variant that forgets the stored tokens when the exchange is refused
oauth_callback_166_mut(t) ==
    /\ pc[t] = "oauth_wait"
    /\ \E answer \in token_endpoint :
          /\ r' = [r EXCEPT ![t] = answer]
          /\ IF answer.status # 200
             THEN /\ Finish(t, Return(<<"Failed to get tokens", answer.text>>))
                  /\ TOKENS' = EmptyDict
                  /\ UNCHANGED hist
             ELSE IF "access_token" \notin DOMAIN answer.data
             THEN /\ Finish(t, Unhandled("KeyError"))
                  /\ UNCHANGED <<TOKENS, hist>>
             ELSE /\ TOKENS' = DictSet(TOKENS, "access_token",
                                       answer.data.access_token)
                  /\ hist' = [hist EXCEPT !.pending = t, !.orgChanged = FALSE,
                                           !.rejected = FALSE]
                  /\ pc' = [pc EXCEPT ![t] = "oauth_167"]
                  /\ UNCHANGED result
    /\ UNCHANGED <<ZOHO_ORG_ID, OAUTH_CLIENT_ID, OAUTH_CLIENT_SECRET,
                   REDIRECT_URI, REFRESH_TOKEN, now, op, headers, response,
                   calls, dependency_map, rows>>

\* main.py:161-166: the endpoint answers; the status test; the first store
oauth_callback_166(t) ==
    /\ pc[t] = "oauth_wait"
    /\ \E answer \in token_endpoint :
          /\ r' = [r EXCEPT ![t] = answer]
          /\ IF answer.status # 200
             THEN /\ Finish(t, Return(<<"Failed to get tokens", answer.text>>))
                  /\ UNCHANGED <<TOKENS, hist>>
             ELSE IF "access_token" \notin DOMAIN answer.data
             THEN /\ Finish(t, Unhandled("KeyError"))
                  /\ UNCHANGED <<TOKENS, hist>>
             ELSE /\ TOKENS' = DictSet(TOKENS, "access_token",
                                       answer.data.access_token)
                  /\ hist' = [hist EXCEPT !.pending = t, !.orgChanged = FALSE,
                                           !.rejected = FALSE]
                  /\ pc' = [pc EXCEPT ![t] = "oauth_167"]
                  /\ UNCHANGED result
    /\ UNCHANGED <<ZOHO_ORG_ID, OAUTH_CLIENT_ID, OAUTH_CLIENT_SECRET,
                   REDIRECT_URI, REFRESH_TOKEN, now, op, headers, response,
                   calls, dependency_map, rows>>

\* main.py:167
oauth_callback_167(t) ==
    /\ pc[t] = "oauth_167"
    /\ IF "expires_in" \notin DOMAIN r[t].data
       THEN /\ Finish(t, Unhandled("KeyError"))
            /\ UNCHANGED <<TOKENS, hist>>
       ELSE /\ TOKENS' = DictSet(TOKENS, "expires_at",
                                 ExpiresAt(now, r[t].data.expires_in))
            /\ hist' = [hist EXCEPT !.pending = IF @ = t THEN 0 ELSE Torn]
            /\ pc' = [pc EXCEPT ![t] = "oauth_168"]
            /\ UNCHANGED result
    /\ UNCHANGED <<ZOHO_ORG_ID, OAUTH_CLIENT_ID, OAUTH_CLIENT_SECRET,
                   REDIRECT_URI, REFRESH_TOKEN, now, op, r, headers,
                   response, calls, dependency_map, rows>>

\* main.py:168-179
oauth_callback_168(t) ==
    /\ pc[t] = "oauth_168"
    /\ REFRESH_TOKEN' = DictGet(r[t].data, "refresh_token", None)
    /\ Finish(t, Return(<<"Tokens Generated Successfully!">>))
    /\ UNCHANGED <<ZOHO_ORG_ID, OAUTH_CLIENT_ID, OAUTH_CLIENT_SECRET,
                   REDIRECT_URI, TOKENS, now, op, r, headers,
                   response, calls, dependency_map, rows, hist>>

-----------------------------------------------------------------------------
(* get_access_token and get_headers, main.py:25-52 *)

\* main.py:26-36 and 42-43: the test, then the refresh request or the raise
get_access_token_26(t) ==
    /\ pc[t] = "gat"
    /\ IF ~NeedsRefresh(TOKENS, now)
       THEN /\ pc' = [pc EXCEPT ![t] = "gat_44"]
            /\ UNCHANGED <<calls, result>>
       ELSE IF REFRESH_TOKEN # None
       THEN /\ pc' = [pc EXCEPT ![t] = "refresh_wait"]
            /\ calls' = [calls EXCEPT ![t].token = @ + 1]
            /\ UNCHANGED result
       ELSE /\ Finish(t, NotConfigured)
            /\ UNCHANGED calls
    /\ UNCHANGED <<globals, now, op, r, headers, response,
                   dependency_map, rows, hist>>

\* main.py:36-40: the endpoint answers; the status test; the first store
get_access_token_40(t) ==
    /\ pc[t] = "refresh_wait"
    /\ \E answer \in token_endpoint :
          /\ r' = [r EXCEPT ![t] = answer]
          /\ IF answer.status # 200
             THEN /\ Finish(t, HTTPException(500,
                         <<"Failed to get access token: ", answer.text>>))
                  /\ hist' = [hist EXCEPT !.rejected = TRUE]
                  /\ UNCHANGED TOKENS
             ELSE IF "access_token" \notin DOMAIN answer.data
             THEN /\ Finish(t, Unhandled("KeyError"))
                  /\ UNCHANGED <<TOKENS, hist>>
             ELSE /\ TOKENS' = DictSet(TOKENS, "access_token",
                                       answer.data.access_token)
                  /\ hist' = [hist EXCEPT !.pending = t, !.orgChanged = FALSE]
                  /\ pc' = [pc EXCEPT ![t] = "refresh_41"]
                  /\ UNCHANGED result
    /\ UNCHANGED <<ZOHO_ORG_ID, OAUTH_CLIENT_ID, OAUTH_CLIENT_SECRET,
                   REDIRECT_URI, REFRESH_TOKEN, now, op, headers, response,
                   calls, dependency_map, rows>>

\* main.py:41
get_access_token_41(t) ==
    /\ pc[t] = "refresh_41"
    /\ IF "expires_in" \notin DOMAIN r[t].data
       THEN /\ Finish(t, Unhandled("KeyError"))
            /\ UNCHANGED <<TOKENS, hist>>
       ELSE /\ TOKENS' = DictSet(TOKENS, "expires_at",
                                 ExpiresAt(now, r[t].data.expires_in))
            /\ hist' = [hist EXCEPT !.pending = IF @ = t THEN 0 ELSE Torn]
            /\ pc' = [pc EXCEPT ![t] = "gat_44"]
            /\ UNCHANGED result
    /\ UNCHANGED <<ZOHO_ORG_ID, OAUTH_CLIENT_ID, OAUTH_CLIENT_SECRET,
                   REDIRECT_URI, REFRESH_TOKEN, now, op, r, headers,
                   response, calls, dependency_map, rows>>

\* main.py:44 and 46-52: the token is returned and the headers are built
\* a variant that sends the organization id of the environment
get_headers_mut(org_id, token) ==
    [orgId |-> "ZOHO_ORG_ID", Authorization |-> token]

get_headers(org_id, token) == [orgId |-> org_id, Authorization |-> token]

\* main.py:44-52, then the request of main.py:196, 207, 278, 293 or 304
send_request(t) ==
    /\ pc[t] = "gat_44"
    /\ headers' = [headers EXCEPT
                     ![t] = get_headers(ZOHO_ORG_ID, TOKENS["access_token"])]
    /\ calls' = [calls EXCEPT ![t].data = @ + 1]
    /\ pc' = [pc EXCEPT ![t] = "data_wait"]
    \* get_access_token has returned: its local r is gone
    /\ r' = [r EXCEPT ![t] = NoResp]
    /\ UNCHANGED <<globals, now, op, response, result,
                   dependency_map, rows, hist>>

-----------------------------------------------------------------------------
(* The Zoho Desk API, https://desk.zoho.com/api/v1 *)

\* what the API may answer to a request that is in flight
desk_api == {[status |-> status, text |-> "body"] : status \in Statuses}

-----------------------------------------------------------------------------
(* The Mapping Gateway handlers, main.py:191-210 and 278-307 *)

\* the statuses a handler takes for success
Accepted(handler) ==
    IF handler \in {"upload_dependency", "upload_dependency_mapping"}
    THEN {200, 201}
    ELSE {200}

\* what the handler hands back once the Desk API has answered `resp`
Outcome(handler, resp) ==
    IF resp.status \notin Accepted(handler)
    THEN HTTPException(resp.status, <<resp.text>>)
    ELSE CASE handler = "delete_mapping" ->
                Return(<<"Dependency Mapping Deleted Successfully">>)
           [] handler \in {"upload_dependency", "upload_dependency_mapping"} ->
                Return(<<"Dependency Mapping Created Successfully", resp.text>>)
           [] OTHER -> Return(<<resp.text>>)

\* main.py:192-196
list_mappings(t) ==
    /\ Begin(t, "list_mappings")
    /\ pc' = [pc EXCEPT ![t] = "gat"]
    /\ UNCHANGED <<globals, now, r, headers, response, calls, result,
                   dependency_map, rows, hist>>

\* main.py:205-207
available_fields(t) ==
    /\ Begin(t, "available_fields")
    /\ pc' = [pc EXCEPT ![t] = "gat"]
    /\ UNCHANGED <<globals, now, r, headers, response, calls, result,
                   dependency_map, rows, hist>>

\* main.py:291-293
update_mapping(t) ==
    /\ Begin(t, "update_mapping")
    /\ pc' = [pc EXCEPT ![t] = "gat"]
    /\ UNCHANGED <<globals, now, r, headers, response, calls, result,
                   dependency_map, rows, hist>>

\* main.py:302-304
delete_mapping(t) ==
    /\ Begin(t, "delete_mapping")
    /\ pc' = [pc EXCEPT ![t] = "gat"]
    /\ UNCHANGED <<globals, now, r, headers, response, calls, result,
                   dependency_map, rows, hist>>

\* main.py:196-199, 207-210, 278-285, 293-296, 304-307 and upload.py:124-132:
\* the API answers and the handler hands its outcome back
gateway_return(t) ==
    /\ pc[t] = "data_wait"
    /\ \E answer \in desk_api :
          /\ response' = [response EXCEPT ![t] = answer]
          /\ Finish(t, Outcome(op[t], answer))
    \* the request has been answered
    /\ headers' = [headers EXCEPT ![t] = NoHeaders]
    /\ UNCHANGED <<globals, now, op, r, calls, dependency_map, rows,
                   hist>>

-----------------------------------------------------------------------------
(* Strings, as sequences of characters, and str.strip() *)

RECURSIVE lstrip(_)
lstrip(s) == IF s # << >> /\ Head(s) = " " THEN lstrip(Tail(s)) ELSE s

RECURSIVE rstrip(_)
rstrip(s) ==
    IF s # << >> /\ s[Len(s)] = " " THEN rstrip(SubSeq(s, 1, Len(s) - 1)) ELSE s

\* a variant that trims the left end only
strip_mut(s) == lstrip(s)

strip(s) == rstrip(lstrip(s))

\* the float nan pandas puts in an empty cell
NaN == <<"NaN">>

\* Python: str(v) of a cell value
str(v) == IF v = NaN THEN <<"n", "a", "n">> ELSE v

\* the cell values the sheets are drawn from
ParentCells == {<<"A">>, <<" ", "A">>, <<"B">>, <<" ">>}
ChildCells == {<<"x">>, <<"x", " ">>, <<"y">>, <<" ", " ">>, NaN}

-----------------------------------------------------------------------------
(* Python dicts in insertion order: a sequence of <<key, value>> *)

Keys(d) == {d[i][1] : i \in DOMAIN d}

IndexOf(d, k) == CHOOSE i \in DOMAIN d : d[i][1] = k

Lookup(d, k) == d[IndexOf(d, k)][2]

Members(list) == {list[i] : i \in DOMAIN list}

\* main.py:254-259 and upload.py:76-81, the body of the loop over the rows
FoldRow(d, parent_cell, child_cell) ==
    LET parent_value == strip(str(parent_cell))
        child_value == strip(str(child_cell))
        d1 == IF parent_value \notin Keys(d)
              THEN Append(d, <<parent_value, << >> >>)
              ELSE d
        i == IndexOf(d1, parent_value)
    IN  IF child_value \notin Members(d1[i][2])
        THEN [d1 EXCEPT ![i] = <<parent_value, Append(d1[i][2], child_value)>>]
        ELSE d1

\* the objects json_data is drawn from (main.py:226-237)
JsonMaps == {<< >>, << <<(<<"A">>), <<(<<"x">>), <<"y">> >> >> >>}

-----------------------------------------------------------------------------
(* POST /upload, main.py:215-285 *)

\* main.py:226-237 and 268-269: json_data is given
upload_dependency_json(t) ==
    /\ Begin(t, "upload_dependency")
    /\ \E m \in JsonMaps :
          /\ dependency_map' = [dependency_map EXCEPT ![t] = m]
          /\ IF m = << >>
             THEN Finish(t, HTTPException(400, <<"No mappings found in input">>))
             ELSE /\ pc' = [pc EXCEPT ![t] = "gat"]
                  /\ UNCHANGED result
    /\ UNCHANGED <<globals, now, r, headers, response, calls, rows,
                   hist>>

\* main.py:244-245 and 265-266: nothing usable was sent
upload_dependency_invalid(t) ==
    /\ Begin(t, "upload_dependency")
    /\ \E detail \in {"Invalid Excel file",
                      "Provide either Excel file or JSON data"} :
          Finish(t, HTTPException(400, <<detail>>))
    /\ UNCHANGED <<globals, now, r, headers, response, calls,
                   dependency_map, rows, hist>>

\* main.py:240-251: a sheet of two or more columns has been read
upload_dependency_excel(t) ==
    /\ Begin(t, "upload_dependency")
    /\ pc' = [pc EXCEPT ![t] = "fold"]
    /\ UNCHANGED <<globals, now, r, headers, response, calls, result,
                   dependency_map, rows, hist>>

\* main.py:253-259 and upload.py:75-81: one turn of the loop
fold_row(t) ==
    /\ pc[t] = "fold"
    /\ Len(rows[t]) < MaxRows
    /\ \E parent_cell \in ParentCells, child_cell \in ChildCells :
          /\ rows' = [rows EXCEPT ![t] = Append(@, <<parent_cell, child_cell>>)]
          /\ dependency_map' = [dependency_map EXCEPT
                                  ![t] = FoldRow(@, parent_cell, child_cell)]
    /\ UNCHANGED <<globals, now, pc, op, r, headers, response, calls,
                   result, hist>>

\* main.py:261-269: the loop is over
upload_dependency_268(t) ==
    /\ pc[t] = "fold"
    /\ op[t] = "upload_dependency"
    /\ IF dependency_map[t] = << >>
       THEN Finish(t, HTTPException(400, <<"No mappings found in input">>))
       ELSE /\ pc' = [pc EXCEPT ![t] = "gat"]
            /\ UNCHANGED result
    /\ UNCHANGED <<globals, now, op, r, headers, response, calls,
                   dependency_map, rows, hist>>

-----------------------------------------------------------------------------
(* POST /upload of app/upload.py, which reads its credentials from the     *)
(* environment at import                                                   *)

\* upload.py:22-26
HEADERS == [orgId |-> "ZOHO_ORG_ID", Authorization |-> 0]

\* upload.py:57-73: the sheet has been read and has both columns
upload_dependency_mapping(t) ==
    /\ Begin(t, "upload_dependency_mapping")
    /\ pc' = [pc EXCEPT ![t] = "fold"]
    /\ UNCHANGED <<globals, now, r, headers, response, calls, result,
                   dependency_map, rows, hist>>

\* upload.py:83-91 and 122-124
upload_dependency_mapping_83(t) ==
    /\ pc[t] = "fold"
    /\ op[t] = "upload_dependency_mapping"
    /\ IF dependency_map[t] = << >>
       THEN /\ Finish(t, HTTPException(400, <<"Excel file is empty">>))
            /\ UNCHANGED <<headers, calls>>
       ELSE /\ headers' = [headers EXCEPT ![t] = HEADERS]
            /\ calls' = [calls EXCEPT ![t].data = @ + 1]
            /\ pc' = [pc EXCEPT ![t] = "data_wait"]
            /\ UNCHANGED result
    /\ UNCHANGED <<globals, now, op, r, response, dependency_map,
                   rows, hist>>

-----------------------------------------------------------------------------
(* Specifications *)

\* app/main.py served by two pool threads
Next ==
    \/ Tick
    \/ \E t \in Threads :
          \/ \E org_id \in OrgIds, client_id \in ClientIds,
                client_secret \in ClientSecrets, redirect_uri \in RedirectUris :
                set_credentials(t, org_id, client_id, client_secret, redirect_uri)
          \/ oauth_callback_refused(t)
          \/ oauth_callback_post(t)
          \/ oauth_callback_166(t)
          \/ oauth_callback_167(t)
          \/ oauth_callback_168(t)
          \/ list_mappings(t)
          \/ available_fields(t)
          \/ update_mapping(t)
          \/ delete_mapping(t)
          \/ upload_dependency_json(t)
          \/ upload_dependency_invalid(t)
          \/ get_access_token_26(t)
          \/ get_access_token_40(t)
          \/ get_access_token_41(t)
          \/ send_request(t)
          \/ gateway_return(t)
          \/ Respond(t)

Spec == Init /\ [][Next]_vars

\* one upload of a sheet, by either module, up to the point where the
\* mapping is handed on
NextUpload ==
    \/ upload_dependency_excel(1)
    \/ upload_dependency_mapping(1)
    \/ fold_row(1)
    \/ upload_dependency_268(1)
    \/ upload_dependency_mapping_83(1)
    \/ get_access_token_26(1)
    \/ gateway_return(1)

SpecUpload == Init /\ [][NextUpload]_vars

-----------------------------------------------------------------------------
(* Vocabulary of the properties *)

\* u is s without its leading and trailing blanks
IsTrimOf(u, s) ==
    /\ u = << >> \/ (u[1] # " " /\ u[Len(u)] # " ")
    /\ \E a \in 1..(Len(s) + 1), b \in 0..Len(s) :
          /\ u = SubSeq(s, a, b)
          /\ \A i \in 1..Len(s) : (i < a \/ i > b) => s[i] = " "

Substrings(s) == {SubSeq(s, a, b) : a \in 1..(Len(s) + 1), b \in 0..Len(s)}

Trimmed(s) == CHOOSE u \in Substrings(s) : IsTrimOf(u, s)

\* the text a cell contributes: its trimmed value
CellText(cell) == Trimmed(IF cell = NaN THEN <<"n", "a", "n">> ELSE cell)

\* a cell that is missing, empty or blank
BlankCell(cell) == cell = NaN \/ Trimmed(cell) = << >>

Least(S) == CHOOSE i \in S : \A j \in S : i <= j

\* the rows of rws whose parent text is k
RowsOf(rws, k) == {i \in DOMAIN rws : CellText(rws[i][1]) = k}

\* the rows of rws that pair parent text k with child text c
PairsOf(rws, k, c) == {i \in RowsOf(rws, k) : CellText(rws[i][2]) = c}

NoDuplicates(list) == \A i, j \in DOMAIN list : list[i] = list[j] => i = j

\* an access token is stored and the clock is not past its expiry
UsableToken ==
    /\ "access_token" \in DOMAIN TOKENS
    /\ "expires_at" \in DOMAIN TOKENS
    /\ now <= TOKENS["expires_at"]

\* thread t takes a step of its own
Steps(t) == pc'[t] # pc[t]

-----------------------------------------------------------------------------
(* C1 *)

C1_Call(t) ==
    /\ (pc[t] = "gat" /\ Steps(t) /\ UsableToken) =>
          /\ pc'[t] = "gat_44"
          /\ calls'[t] = calls[t]
    /\ (pc[t] = "gat" /\ Steps(t) /\ ~UsableToken /\ REFRESH_TOKEN # None) =>
          /\ pc'[t] = "refresh_wait"
          /\ calls'[t].token = calls[t].token + 1
    /\ (pc[t] = "refresh_wait" /\ pc'[t] = "refresh_41") =>
          TOKENS'["access_token"] = r'[t].data.access_token
    /\ (pc[t] = "refresh_41" /\ pc'[t] = "gat_44") =>
          TOKENS'["expires_at"] = now + r[t].data.expires_in - 60
    /\ (pc[t] = "gat_44" /\ Steps(t)) =>
          /\ headers'[t].Authorization = TOKENS["access_token"]
          /\ calls[t].token = (IF r[t] = NoResp THEN 0 ELSE 1)
          /\ r[t] # NoResp =>
                headers'[t].Authorization = r[t].data.access_token

\* C1: a call of get_access_token that finds a stored, unexpired token
\* returns it and makes no remote call; one that finds the token absent or
\* expired and a refresh token stored makes exactly one refresh request and,
\* when that is granted, stores the granted token with expires_at = now +
\* lifetime - 60 and returns the granted token.
C1_Original == [][\A t \in Threads : C1_Call(t)]_vars

-----------------------------------------------------------------------------
(* C2 *)

C2_Unconfigured == ~UsableToken /\ REFRESH_TOKEN = None

\* C2: where no usable access token and no refresh token is stored, every
\* Mapping Gateway handler (list, available fields, update, delete and the
\* create call of upload) fails with the NotConfigured error and has sent
\* nothing, neither to the Desk API nor to the token endpoint.
C2_NotConfiguredNoCalls ==
    [][\A t \in Threads :
          (pc[t] = "gat" /\ Steps(t) /\ C2_Unconfigured) =>
             /\ op[t] \in GatewayOps
             /\ pc'[t] = "done"
             /\ result'[t].kind = "HTTPException"
             /\ result'[t].status_code = 400
             /\ result'[t].detail =
                   <<"No refresh token available, generate tokens first">>
             /\ calls'[t] = [token |-> 0, data |-> 0]]_vars

C2_Witness ==
    /\ C2_Unconfigured
    /\ pc[1] = "done" /\ op[1] = "upload_dependency"
    /\ result[1].kind = "HTTPException" /\ result[1].status_code = 400
    /\ calls[1] = [token |-> 0, data |-> 0]
    /\ pc[2] = "done" /\ op[2] = "list_mappings"
    /\ result[2].kind = "HTTPException" /\ result[2].status_code = 400

-----------------------------------------------------------------------------
(* C3 *)

C3_Whole ==
    /\ hist.pending = 0
    /\ ("access_token" \in DOMAIN TOKENS) <=> ("expires_at" \in DOMAIN TOKENS)

\* the threads that stand between the store of a token and of its expiry
C3_Writers == {t \in Threads : pc[t] \in {"oauth_167", "refresh_41"}}

\* C3: whenever the stored pair can be observed (no request stands between
\* its two stores, or another request is about to read the pair) the
\* stored access_token and expires_at come from one and the same answer of
\* the token endpoint, or neither is stored: never the token of one answer
\* with the expiry of another, or with none.
C3_Original ==
    (\/ C3_Writers = {}
     \/ \E t \in Threads \ C3_Writers : pc[t] \in {"gat", "gat_44"})
       => C3_Whole

-----------------------------------------------------------------------------
(* C4 *)

\* C4: a step of oauth_callback that is not the handling of a 200 answer
\* (the refusal for an error or a missing code, the posting of the exchange,
\* the handling of a non-2xx answer) leaves access token, expiry and refresh
\* token as they were, and the handler returns an error that carries the
\* remote payload.
C4_FailedExchangeKeepsState ==
    [][\A t \in Threads :
          /\ (pc[t] = "idle" /\ Steps(t) /\ op'[t] = "oauth_callback") =>
                /\ TOKENS' = TOKENS
                /\ REFRESH_TOKEN' = REFRESH_TOKEN
                /\ pc'[t] = "done" =>
                      result'[t].kind = "return" /\ result'[t].body[1] = "error"
          /\ (pc[t] = "oauth_wait" /\ Steps(t)
                 /\ r'[t].status \notin 200..299) =>
                /\ TOKENS' = TOKENS
                /\ REFRESH_TOKEN' = REFRESH_TOKEN
                /\ pc'[t] = "done"
                /\ result'[t].kind = "return"
                /\ result'[t].body = <<"Failed to get tokens", r'[t].text>>]_vars

C4_Witness ==
    \E t \in Threads :
        /\ pc[t] = "done" /\ op[t] = "oauth_callback"
        /\ r[t].status = 400
        /\ result[t].body = <<"Failed to get tokens", "invalid_code">>
        /\ "access_token" \in DOMAIN TOKENS
        /\ "expires_at" \in DOMAIN TOKENS
        /\ REFRESH_TOKEN # None

-----------------------------------------------------------------------------
(* C5 *)

\* C5: in every state the organization id and the access token are both
\* present or both absent, in the CREDENTIALS dictionary and in the globals
\* that set_credentials and oauth_callback write.
C5_Original ==
    /\ (CREDENTIALS.orgId # None) <=> (CREDENTIALS.accessToken # None)
    /\ (ZOHO_ORG_ID # None) <=> ("access_token" \in DOMAIN TOKENS)

-----------------------------------------------------------------------------
(* C6 *)

\* C6: an access token is stored only once set_credentials has set client
\* id, client secret and redirect URI; and once the token endpoint has
\* refused a refresh no refresh stores a token again until oauth_callback
\* has exchanged a new code.
C6_Original ==
    [][/\ "access_token" \in DOMAIN TOKENS' =>
             /\ OAUTH_CLIENT_ID' # None
             /\ OAUTH_CLIENT_SECRET' # None
             /\ REDIRECT_URI' # None
       /\ hist.rejected =>
             \A t \in Threads :
                ~(pc[t] = "refresh_wait" /\ pc'[t] = "refresh_41")]_vars

-----------------------------------------------------------------------------
(* C7 *)

\* C7: a gateway handler that has had its answer from the Desk API returns
\* a success for any 2xx status (the body passed through, or the fixed
\* message for delete) and raises the remote status and body for any other,
\* after exactly one request to the Desk API.
C7_Original ==
    \A t \in Threads :
        (pc[t] = "done" /\ op[t] \in GatewayOps /\ response[t] # NoResp) =>
           /\ calls[t].data = 1
           /\ IF response[t].status \in 200..299
              THEN /\ result[t].kind = "return"
                   /\ IF op[t] = "delete_mapping"
                      THEN result[t].body =
                              <<"Dependency Mapping Deleted Successfully">>
                      ELSE result[t].body[Len(result[t].body)] =
                              response[t].text
              ELSE /\ result[t].kind = "HTTPException"
                   /\ result[t].status_code = response[t].status
                   /\ result[t].detail = <<response[t].text>>

-----------------------------------------------------------------------------
(* C8 *)

\* C8: whatever rows the loop has folded, the mapping lists the parents in
\* the order of their first rows, and each parent's list holds exactly the
\* distinct trimmed child values of that parent's rows, in the order of
\* their first rows, none twice.
C8_FoldOrderedDistinct ==
    \A t \in Threads :
        pc[t] = "fold" =>
           LET d == dependency_map[t]
               rws == rows[t]
           IN  /\ Keys(d) = {CellText(rws[i][1]) : i \in DOMAIN rws}
               /\ \A i, j \in DOMAIN d :
                     i < j => Least(RowsOf(rws, d[i][1]))
                                 < Least(RowsOf(rws, d[j][1]))
               /\ \A n \in DOMAIN d :
                     LET k == d[n][1]
                         list == d[n][2]
                     IN  /\ Members(list) =
                               {CellText(rws[i][2]) : i \in RowsOf(rws, k)}
                         /\ NoDuplicates(list)
                         /\ \A i, j \in DOMAIN list :
                               i < j => Least(PairsOf(rws, k, list[i]))
                                           < Least(PairsOf(rws, k, list[j]))

C8_Witness ==
    \E t \in Threads :
        /\ pc[t] = "fold"
        /\ rows[t] = << <<(<<"A">>), <<"x">> >>, <<(<<" ", "A">>), <<"y">> >>,
                        <<(<<"A">>), <<"x", " ">> >> >>
        /\ dependency_map[t] = << <<(<<"A">>), <<(<<"x">>), <<"y">> >> >> >>

-----------------------------------------------------------------------------
(* C9 *)

C9_Survives(row) == ~BlankCell(row[1]) /\ ~BlankCell(row[2])

C9_Survivors(rws) == {i \in DOMAIN rws : C9_Survives(rws[i])}

\* C9: a row whose parent or child is missing, empty or blank gives the
\* mapping neither a key nor a child; and an upload none of whose rows
\* survives fails with the 400 for an empty input without a create call.
C9_Original ==
    \A t \in Threads :
        LET d == dependency_map[t]
            rws == rows[t]
            kept == C9_Survivors(rws)
        IN  /\ pc[t] = "fold" =>
                 /\ Keys(d) = {CellText(rws[i][1]) : i \in kept}
                 /\ \A n \in DOMAIN d :
                       Members(d[n][2]) =
                          {CellText(rws[i][2]) : i \in kept \cap RowsOf(rws, d[n][1])}
            /\ (pc[t] \notin {"idle", "fold"} /\ rws # << >> /\ kept = {}) =>
                 /\ pc[t] = "done"
                 /\ result[t].kind = "HTTPException"
                 /\ result[t].status_code = 400
                 /\ calls[t].data = 0

-----------------------------------------------------------------------------
(* C10 *)

\* C10: set_credentials leaves access token, expiry and refresh token as
\* they were; and a gateway request carries the organization id and the
\* access token stored when it is sent, the token being used without a
\* call to the token endpoint while it is usable.
C10_SetCredentialsKeepsTokens ==
    [][\A t \in Threads :
          /\ (pc[t] = "idle" /\ Steps(t) /\ op'[t] = "set_credentials") =>
                /\ TOKENS' = TOKENS
                /\ REFRESH_TOKEN' = REFRESH_TOKEN
          /\ (pc[t] = "gat" /\ Steps(t) /\ UsableToken) =>
                /\ pc'[t] = "gat_44"
                /\ calls'[t] = calls[t]
          /\ (pc[t] = "gat_44" /\ Steps(t)) =>
                /\ pc'[t] = "data_wait"
                /\ headers'[t].orgId = ZOHO_ORG_ID
                /\ headers'[t].Authorization = TOKENS["access_token"]]_vars

C10_Witness ==
    \E t \in Threads :
        /\ pc[t] = "data_wait"
        /\ hist.orgChanged
        /\ ZOHO_ORG_ID = "org2"
        /\ headers[t].orgId = "org2"
        /\ headers[t].Authorization = TOKENS["access_token"]
        /\ calls[t] = [token |-> 0, data |-> 1]

=============================================================================
